---- MODULE Spec2Model ----
(***************************************************************************)
(* A model of dolfinx_mpc's constrained linear problem                     *)
(* (python/dolfinx_mpc/problem.py) and of its verification utilities       *)
(* (python/dolfinx_mpc/utils/test.py).                                     *)
(*                                                                         *)
(* Python arrays are 0-based; they are modelled as TLA+ sequences, so the  *)
(* element a[i] of the code is a[i + 1] here.  Global dof, block and rank  *)
(* numbers keep the 0-based values of the code.                            *)
(***************************************************************************)
EXTENDS Integers, Sequences, FiniteSets, TLC

\* ------------------------------------------------------------------ bounds
NProcs == 2
MaxDofs == 3
MaxAddresses == 2
MaxCtorCalls == 3
MaxSolves == 2

Ranks == 0 .. (NProcs - 1)
BlockSizes == {1, 2}

VARIABLES
    \* the distributed layout and the constraint handed to the utilities
    nblocks,      \* index_map.size_global
    bs,           \* dofmap.index_map_bs
    ranges,       \* rank -> <<lo, hi>>: index_map.local_range of the rank
    coeffG,       \* the constraint: slave global dof -> [master global dof -> coefficient]
    \* gather_transformation_matrix, one activation per rank
    root,         \* the root argument
    pcK,          \* rank -> position in gather_transformation_matrix
    agBuf,        \* rank -> glob_slaves contributed to the all-gather
    gBuf,         \* rank -> the K_val, rows and cols the rank contributed to the gathers
    K,            \* what root got back
    \* gather_PETScVector, one activation per rank
    vecLocal,     \* rank -> vector.array, the entries the rank owns
    pcV,          \* rank -> position in gather_PETScVector
    vBuf,         \* rank -> the numpy_vec the rank contributed to the all-gather
    vRet,         \* rank -> what the call returned on the rank
    \* compare_MPC_LHS, compare_MPC_RHS or gather_transformation_matrix called
    \* by every rank: the calls each rank makes on the communicator
    fn,               \* the utility every rank calls
    numLocalSlaves,   \* rank -> constraint.num_local_slaves()
    numLocalEntries,  \* rank -> number of K entries the rank builds (len(K_val))
    mismatch,         \* whether root's comparison fails
    pcC,              \* rank -> index of the rank's next statement
    stC,              \* rank -> "run", "wait" (inside a collective), or how it ended
    calls,            \* rank -> the collective calls the rank has entered, in order
    \* LinearProblem.__init__ in one process
    optStore,     \* PETSc's process-global options: <<prefix, key>> -> value
    live,         \* the LinearProblem instances alive: id, petsc_options, solver configuration
    alloc,        \* how many forms, functions, matrices, vectors and solvers were created
    seen,         \* the outcomes constructor calls have had
    nCtorCalls,   \* the number of constructor calls made
    \* LinearProblem.solve on every rank of the communicator
    inp,          \* the data behind the forms and the boundary conditions
    bcDofs,       \* the dofs the boundary conditions pin
    pcS,          \* 0: not inside solve(); else the index of the next statement
    slog,         \* the operations the current call has performed, in order
    self_A,       \* self._A: rank -> the values the rank holds, and the assembled flag
    self_b,       \* self._b: rank -> local form, owned and ghost entries
    self_x,       \* self._x, the vector of self.u: rank -> local form, owned and ghost entries
    nSolves,      \* the number of calls of solve() started
    last,         \* what the latest returned call left: its inputs, A, b, x
    prev          \* what the returned call before that one left

layoutVars == <<nblocks, bs, ranges, coeffG, root>>
kVars == <<pcK, agBuf, gBuf, K>>
vVars == <<vecLocal, pcV, vBuf, vRet>>
cVars == <<fn, numLocalSlaves, numLocalEntries, mismatch, pcC, stC, calls>>
iVars == <<optStore, live, alloc, seen, nCtorCalls>>
sVars == <<inp, bcDofs, pcS, slog, self_A, self_b, self_x, nSolves, last, prev>>
vars == <<layoutVars, kVars, vVars, cVars, iVars, sVars>>
\* what the actions of one part leave alone
notK == <<vVars, cVars, iVars, sVars>>
notV == <<kVars, cVars, iVars, sVars>>
notC == <<kVars, vVars, iVars, sVars>>
notI == <<layoutVars, kVars, vVars, cVars, sVars>>
notS == <<layoutVars, kVars, vVars, cVars, iVars>>

\* ------------------------------------------------------------ helpers
RECURSIVE SumSeq(_)
SumSeq(s) == IF s = <<>> THEN 0 ELSE Head(s) + SumSeq(Tail(s))

Min(S) == CHOOSE x \in S : \A y \in S : x <= y
Max(S) == CHOOSE x \in S : \A y \in S : x >= y

\* The elements of a finite set of integers in increasing order.
RECURSIVE SortedSeq(_)
SortedSeq(S) == IF S = {} THEN <<>> ELSE <<Min(S)>> \o SortedSeq(S \ {Min(S)})

\* The elements of a finite set of integers in decreasing order.
RECURSIVE RevSortedSeq(_)
RevSortedSeq(S) == IF S = {} THEN <<>> ELSE <<Max(S)>> \o RevSortedSeq(S \ {Max(S)})

Range(s) == {s[i] : i \in 1 .. Len(s)}

\* np.hstack of the per-rank arrays of a gather, in rank order.
RECURSIVE HStackFrom(_, _)
HStackFrom(buf, p) == IF p >= NProcs THEN <<>> ELSE buf[p] \o HStackFrom(buf, p + 1)
HStack(buf) == HStackFrom(buf, 0)

\* ------------------------------------------------- layout and constraint
NumDofs == nblocks * bs
Dofs == 0 .. (NumDofs - 1)
SlavesG == DOMAIN coeffG
MastersOf(s) == {m \in DOMAIN coeffG[s] : coeffG[s][m] # 0}

\* Contiguous owned block ranges covering 0 .. nb, empty ranges included.
Partitions(nb) ==
    {r \in [Ranks -> (0 .. nb) \X (0 .. nb)] :
        /\ r[0][1] = 0
        /\ r[NProcs - 1][2] = nb
        /\ \A p \in Ranks : r[p][1] <= r[p][2]
        /\ \A p \in Ranks : p + 1 \in Ranks => r[p][2] = r[p + 1][1]}

\* The coefficient given to the pair (slave s, master m): nonzero, never the 1
\* of an identity entry, and different for different pairs, so that a value
\* tells where it came from.  The pair (0, 1) gets 2.
CoeffTag(s, m) == 2 * m + 10 * s

\* Constraints over n dofs: a set of slaves, and for every slave a coefficient
\* for each of its masters (0: not a master); masters are never slaves, and a
\* slave may have no master at all.
Constraints(n) ==
    UNION {{[s \in S |-> [m \in ((0 .. (n - 1)) \ S) |->
                IF m \in ms[s] THEN CoeffTag(s, m) ELSE 0]] :
            ms \in [S -> SUBSET ((0 .. (n - 1)) \ S)]} :
           S \in SUBSET (0 .. (n - 1))}

OwnedBlocks(p) == ranges[p][1] .. (ranges[p][2] - 1)
NumOwnedBlocks(p) == ranges[p][2] - ranges[p][1]
\* Ghost blocks of a rank: the blocks it does not own, here in decreasing order.
Ghosts(p) == RevSortedSeq((0 .. (nblocks - 1)) \ OwnedBlocks(p))
NumLocalBlocks(p) == NumOwnedBlocks(p) + Len(Ghosts(p))

\* imap.local_to_global of one local block index.
LocalToGlobal(p, lb) ==
    IF lb < NumOwnedBlocks(p) THEN ranges[p][1] + lb
    ELSE Ghosts(p)[lb - NumOwnedBlocks(p) + 1]

GlobalToLocal(p, gb) == CHOOSE lb \in 0 .. (NumLocalBlocks(p) - 1) : LocalToGlobal(p, lb) = gb

\* The local index on rank p of global dof g.
LocalDof(p, g) == GlobalToLocal(p, g \div bs) * bs + (g % bs)
\* The global index of local dof d of rank p.
GlobalDof(p, d) == LocalToGlobal(p, d \div bs) * bs + (d % bs)

OwnedDofs(p) == {g \in Dofs : (g \div bs) \in OwnedBlocks(p)}

\* constraint.num_local_slaves(): the slaves the rank owns.
NumLocalSlaves(p) == Cardinality(SlavesG \cap OwnedDofs(p))

\* constraint.slaves(): local indices, the owned slaves first, then the ghost ones.
ConstraintSlaves(p) ==
    LET own == SortedSeq(SlavesG \cap OwnedDofs(p))
        gho == SortedSeq(SlavesG \ OwnedDofs(p))
        all == own \o gho
    IN [i \in 1 .. Len(all) |-> LocalDof(p, all[i])]

\* constraint.masters() and constraint.coefficients()[0]: an adjacency list with
\* one node per local dof; the links of a slave's node are its masters (local
\* indices), those of any other node are empty, as the code reads it with
\* offsets[slave] : offsets[slave + 1].
RECURSIVE MasterLinksFrom(_, _)
MasterLinksFrom(p, d) ==
    IF d >= NumLocalBlocks(p) * bs THEN <<>>
    ELSE LET g == GlobalDof(p, d)
             ms == IF g \in SlavesG THEN SortedSeq(MastersOf(g)) ELSE <<>>
         IN <<[j \in 1 .. Len(ms) |-> [master |-> LocalDof(p, ms[j]), coeff |-> coeffG[g][ms[j]]]]>>
            \o MasterLinksFrom(p, d + 1)
MasterLinks(p) == MasterLinksFrom(p, 0)

RECURSIVE Flatten(_)
Flatten(ss) == IF ss = <<>> THEN <<>> ELSE Head(ss) \o Flatten(Tail(ss))

MastersArray(p) == LET f == Flatten(MasterLinks(p)) IN [i \in 1 .. Len(f) |-> f[i].master]
CoeffsArray(p) == LET f == Flatten(MasterLinks(p)) IN [i \in 1 .. Len(f) |-> f[i].coeff]
\* offsets[d] of the code is MastersOffsets(p)[d + 1].
RECURSIVE OffsetsFrom(_, _)
OffsetsFrom(links, acc) ==
    IF links = <<>> THEN <<acc>>
    ELSE <<acc>> \o OffsetsFrom(Tail(links), acc + Len(Head(links)))
MastersOffsets(p) == OffsetsFrom(MasterLinks(p), 0)

\* ------------------------------------------ gather_transformation_matrix
\* Lines 80-88: the global indices of the slaves the rank owns.
GlobSlaves(p) ==
    LET num_local_slaves == NumLocalSlaves(p)
        slaves == SubSeq(ConstraintSlaves(p), 1, num_local_slaves)
    IN IF num_local_slaves > 0
       THEN [i \in 1 .. Len(slaves) |->
                LocalToGlobal(p, slaves[i] \div bs) * bs + (slaves[i] % bs)]
       ELSE <<>>

\* A variant that shifts by the rank's own slaves only, without the all-gather.
AllSlavesLocalOnly(buf, p) == buf[p]

\* Line 89: all_slaves = np.hstack(MPI.COMM_WORLD.allgather(glob_slaves)).
AllSlaves(buf, p) == HStack(buf)

\* A variant that does not shift the columns.
ShiftCountNone(x, all_slaves) == 0


\* Lines 103 and 116: sum(x > all_slaves).
ShiftCount(x, all_slaves) ==
    Cardinality({i \in 1 .. Len(all_slaves) : x > all_slaves[i]})

\* Lines 99-106, for one slave: an entry per (master, coefficient) of
\* masters[offsets[slave] : offsets[slave + 1]].
RECURSIVE MasterEntries(_, _, _, _, _, _, _)
MasterEntries(p, masters, coeffs, global_slave, j, stop, all_slaves) ==
    IF j >= stop THEN <<>>
    ELSE LET loc == masters[j + 1]
             master == LocalToGlobal(p, loc \div bs) * bs + (loc % bs)
             coeff == coeffs[j + 1]
             count == ShiftCount(master, all_slaves)
         IN <<[val |-> coeff, row |-> global_slave, col |-> master - count]>>
            \o MasterEntries(p, masters, coeffs, global_slave, j + 1, stop, all_slaves)

\* Lines 98-106: the loop over zip(slaves, glob_slaves).
RECURSIVE SlaveEntries(_, _, _, _, _)
SlaveEntries(p, c, i, glob_slaves, all_slaves) ==
    IF i > Len(glob_slaves) THEN <<>>
    ELSE LET slave == c.slaves[i]
         IN MasterEntries(p, c.masters, c.coeffs, glob_slaves[i],
                          c.offsets[slave + 1], c.offsets[slave + 2], all_slaves)
            \o SlaveEntries(p, c, i + 1, glob_slaves, all_slaves)

\* Lines 109-116: an identity entry for every owned dof that is not a local slave.
RECURSIVE IdentityEntries(_, _, _, _)
IdentityEntries(dof, stop, glob_slaves, all_slaves) ==
    IF dof >= stop THEN <<>>
    ELSE (IF dof \in Range(glob_slaves) THEN <<>>
          ELSE <<[val |-> 1, row |-> dof, col |-> dof - ShiftCount(dof, all_slaves)]>>)
         \o IdentityEntries(dof + 1, stop, glob_slaves, all_slaves)

\* Lines 96-116: the rank's K_val, rows and cols.
LocalEntries(p, glob_slaves, all_slaves) ==
    LET c == [slaves |-> ConstraintSlaves(p), masters |-> MastersArray(p),
              coeffs |-> CoeffsArray(p), offsets |-> MastersOffsets(p)]
        e == SlaveEntries(p, c, 1, glob_slaves, all_slaves)
             \o IdentityEntries(ranges[p][1] * bs, ranges[p][2] * bs, glob_slaves, all_slaves)
    IN [K_val |-> [i \in 1 .. Len(e) |-> e[i].val],
        rows |-> [i \in 1 .. Len(e) |-> e[i].row],
        cols |-> [i \in 1 .. Len(e) |-> e[i].col]]

\* Line 124: scipy.sparse.coo_matrix((data, (row, col))).tocsr() with no shape
\* argument: the shape is inferred from the largest indices, index arrays of
\* length zero raise ValueError, and entries at the same position are summed.
CooToCsr(data, row, col) ==
    IF Len(row) = 0 \/ Len(col) = 0 THEN [status |-> "raised"]
    ELSE LET pos == {<<row[i], col[i]>> : i \in 1 .. Len(row)}
             at(rc) == {i \in 1 .. Len(row) : <<row[i], col[i]>> = rc}
         IN [status |-> "ok",
             nrows |-> Max(Range(row)) + 1,
             ncols |-> Max(Range(col)) + 1,
             entries |-> [rc \in pos |->
                 SumSeq([k \in 1 .. Cardinality(at(rc)) |-> data[SortedSeq(at(rc))[k]]])]]

NoK == [status |-> "none"]
EmptyEntries == [K_val |-> <<>>, rows |-> <<>>, cols |-> <<>>]

InitLayout ==
    /\ bs \in BlockSizes
    /\ nblocks \in 1 .. MaxDofs
    /\ nblocks * bs <= MaxDofs
    /\ ranges \in Partitions(nblocks)
    /\ coeffG \in Constraints(nblocks * bs)
    /\ root \in Ranks

InitK ==
    /\ pcK = [p \in Ranks |-> "start"]
    /\ agBuf = [p \in Ranks |-> <<>>]
    /\ gBuf = [p \in Ranks |-> EmptyEntries]
    /\ K = NoK

\* Lines 77-89: the rank computes glob_slaves and enters the all-gather.
K_GatherSlaves(p) ==
    /\ pcK[p] = "start"
    /\ agBuf' = [agBuf EXCEPT ![p] = GlobSlaves(p)]
    /\ pcK' = [pcK EXCEPT ![p] = "allgather"]
    /\ UNCHANGED <<gBuf, K, layoutVars, notK>>

\* Lines 89-121: the all-gather completes once every rank has entered it; the
\* rank then builds its local entries and enters the gathers of K_val, rows
\* and cols with them.
K_LocalEntries(p) ==
    /\ pcK[p] = "allgather"
    /\ \A q \in Ranks : pcK[q] # "start"
    /\ gBuf' = [gBuf EXCEPT ![p] = LocalEntries(p, agBuf[p], AllSlaves(agBuf, p))]
    /\ pcK' = [pcK EXCEPT ![p] = "gather"]
    /\ UNCHANGED <<agBuf, K, layoutVars, notK>>

\* Lines 123-125: the gathers complete once every rank has entered them; root
\* builds K, the others return None.
K_Return(p) ==
    /\ pcK[p] = "gather"
    /\ \A q \in Ranks : pcK[q] \in {"gather", "done"}
    /\ pcK' = [pcK EXCEPT ![p] = "done"]
    /\ K' = IF p = root
            THEN CooToCsr(HStack([q \in Ranks |-> gBuf[q].K_val]),
                          HStack([q \in Ranks |-> gBuf[q].rows]),
                          HStack([q \in Ranks |-> gBuf[q].cols]))
            ELSE K
    /\ UNCHANGED <<agBuf, gBuf, layoutVars, notK>>

NextK == \E p \in Ranks : K_GatherSlaves(p) \/ K_LocalEntries(p) \/ K_Return(p)

IdleK ==
    /\ pcK = [p \in Ranks |-> "idle"]
    /\ agBuf = [p \in Ranks |-> <<>>]
    /\ gBuf = [p \in Ranks |-> EmptyEntries]
    /\ K = NoK

\* ---------------------------------------------------- gather_PETScVector
\* What a call returns: None, or an array.
NoneValue == [kind |-> "None"]
Array(a) == [kind |-> "array", data |-> a]

\* The vector whose global entry i is i.
IotaVector(n) == [i \in 1 .. n |-> i - 1]
\* The global vectors tried: that one, and those with entries 5 and 7.
GlobalVectors(n) == {IotaVector(n)} \cup [1 .. n -> {5, 7}]

\* Lines 163-166: a zero array of the global size with the owned entries added
\* into numpy_vec[l_min : l_max].
FillOwned(size, l_min, l_max, array) ==
    [i \in 1 .. size |-> IF l_min <= i - 1 /\ i - 1 < l_max
                         THEN 0 + array[i - l_min] ELSE 0]

\* sum(arrays): Python's sum of a list of arrays, entry by entry from 0.
RECURSIVE SumArraysFrom(_, _, _)
SumArraysFrom(buf, q, size) ==
    IF q >= NProcs THEN [i \in 1 .. size |-> 0]
    ELSE LET rest == SumArraysFrom(buf, q + 1, size)
         IN [i \in 1 .. size |-> buf[q][i] + rest[i]]

\* A variant that gathers to root only: the other ranks get nothing back.
AllGatherSumRootOnly(buf, p, size) ==
    IF p = root THEN Array(SumArraysFrom(buf, 0, size)) ELSE NoneValue

\* Line 167: sum(MPI.COMM_WORLD.allgather(numpy_vec)), the same on every rank.
AllGatherSum(buf, p, size) == Array(SumArraysFrom(buf, 0, size))

InitV ==
    /\ bs = 1
    /\ nblocks \in 1 .. MaxDofs
    /\ ranges \in Partitions(nblocks)
    /\ coeffG = <<>>
    /\ root \in Ranks
    /\ vecLocal \in {[p \in Ranks |-> [i \in 1 .. (ranges[p][2] - ranges[p][1]) |->
                        g[ranges[p][1] + i]]] : g \in GlobalVectors(nblocks)}
    /\ pcV = [p \in Ranks |-> "start"]
    /\ vBuf = [p \in Ranks |-> <<>>]
    /\ vRet = [p \in Ranks |-> NoneValue]

IdleV ==
    /\ vecLocal = [p \in Ranks |-> <<>>]
    /\ pcV = [p \in Ranks |-> "idle"]
    /\ vBuf = [p \in Ranks |-> <<>>]
    /\ vRet = [p \in Ranks |-> NoneValue]

\* Lines 163-167: the rank fills its owned range and enters the all-gather.
V_Fill(p) ==
    /\ pcV[p] = "start"
    /\ vBuf' = [vBuf EXCEPT ![p] = FillOwned(nblocks, ranges[p][1], ranges[p][2], vecLocal[p])]
    /\ pcV' = [pcV EXCEPT ![p] = "allgather"]
    /\ UNCHANGED <<vecLocal, vRet, layoutVars, notV>>

\* Lines 167-168: the all-gather completes once every rank has entered it; the
\* rank returns the sum.
V_Return(p) ==
    /\ pcV[p] = "allgather"
    /\ \A q \in Ranks : pcV[q] # "start"
    /\ vRet' = [vRet EXCEPT ![p] = AllGatherSum(vBuf, p, nblocks)]
    /\ pcV' = [pcV EXCEPT ![p] = "done"]
    /\ UNCHANGED <<vecLocal, vBuf, layoutVars, notV>>

NextV == \E p \in Ranks : V_Fill(p) \/ V_Return(p)

\* ------------------------------ the calls of the comparison utilities
\* A statement that matters to the other ranks: a collective call, or a
\* root-only step that can raise.
Stmt(op, line) == [op |-> op, line |-> line]

\* _gather_slaves_global, lines 43-54: the branch on num_local_slaves holds no
\* collective call; the all-gather of line 53 follows it on either side.
GatherSlavesGlobalStmts(p) ==
    (IF numLocalSlaves[p] > 0 THEN <<>> ELSE <<>>) \o <<Stmt("allgather", 53)>>

\* gather_transformation_matrix, lines 77-125: the all-gather of the slaves,
\* the three gathers, and on root the construction of the matrix.
TransformationMatrixStmts(p) ==
    (IF numLocalSlaves[p] > 0 THEN <<>> ELSE <<>>)
    \o <<Stmt("allgather", 89), Stmt("gather", 119), Stmt("gather", 120), Stmt("gather", 121)>>
    \o (IF p = root THEN <<Stmt("coo_matrix", 124)>> ELSE <<>>)

\* gather_PETScMatrix, lines 146-155: three gathers; the root-only part builds
\* the matrix with an explicit shape.
PETScMatrixStmts(p) == <<Stmt("gather", 147), Stmt("gather", 148), Stmt("gather", 149)>>

\* gather_PETScVector, lines 163-168.
PETScVectorStmts(p) == <<Stmt("allgather", 167)>>

\* compare_MPC_LHS, lines 185-207.
CompareLHSStmts(p) ==
    TransformationMatrixStmts(p) \o PETScMatrixStmts(p) \o GatherSlavesGlobalStmts(p)
    \o PETScMatrixStmts(p) \o (IF p = root THEN <<Stmt("compare", 205)>> ELSE <<>>)

\* compare_MPC_RHS, lines 214-226.
CompareRHSStmts(p) ==
    GatherSlavesGlobalStmts(p) \o PETScVectorStmts(p) \o PETScVectorStmts(p)
    \o TransformationMatrixStmts(p) \o (IF p = root THEN <<Stmt("compare", 225)>> ELSE <<>>)

Program(p) ==
    CASE fn = "gather_transformation_matrix" -> TransformationMatrixStmts(p)
      [] fn = "compare_MPC_LHS" -> CompareLHSStmts(p)
      [] fn = "compare_MPC_RHS" -> CompareRHSStmts(p)
      [] OTHER -> <<>>

Collectives == {"allgather", "gather"}
Ended(p) == stC[p] \in {"returned", "raised", "failed"}
LocalCounts == {0, 1}

InitC ==
    /\ root \in Ranks
    /\ fn \in {"gather_transformation_matrix", "compare_MPC_LHS", "compare_MPC_RHS"}
    /\ numLocalSlaves \in [Ranks -> LocalCounts]
    /\ numLocalEntries \in [Ranks -> LocalCounts]
    \* the function space has a dof: a rank owns a slave or builds an entry
    /\ \E p \in Ranks : numLocalSlaves[p] > 0 \/ numLocalEntries[p] > 0
    /\ mismatch \in BOOLEAN
    /\ pcC = [p \in Ranks |-> 1]
    /\ stC = [p \in Ranks |-> "run"]
    /\ calls = [p \in Ranks |-> <<>>]

IdleC ==
    /\ fn = "none"
    /\ numLocalSlaves = [p \in Ranks |-> 0]
    /\ numLocalEntries = [p \in Ranks |-> 0]
    /\ mismatch = FALSE
    /\ pcC = [p \in Ranks |-> 1]
    /\ stC = [p \in Ranks |-> "idle"]
    /\ calls = [p \in Ranks |-> <<>>]

IdleLayout ==
    /\ nblocks = 0
    /\ bs = 1
    /\ ranges = [p \in Ranks |-> <<0, 0>>]
    /\ coeffG = <<>>

\* The rank enters its next collective call.
C_Enter(p) ==
    /\ stC[p] = "run"
    /\ pcC[p] <= Len(Program(p))
    /\ Program(p)[pcC[p]].op \in Collectives
    /\ calls' = [calls EXCEPT ![p] = Append(@, Program(p)[pcC[p]].op)]
    /\ stC' = [stC EXCEPT ![p] = "wait"]
    /\ UNCHANGED <<fn, numLocalSlaves, numLocalEntries, mismatch, pcC, layoutVars, notC>>

\* The collective call completes on the rank: every rank has entered its
\* matching call, the one at the same place in its sequence of calls.
C_Leave(p) ==
    /\ stC[p] = "wait"
    /\ \A q \in Ranks : /\ Len(calls[q]) >= Len(calls[p])
                        /\ calls[q][Len(calls[p])] = calls[p][Len(calls[p])]
    /\ stC' = [stC EXCEPT ![p] = "run"]
    /\ pcC' = [pcC EXCEPT ![p] = @ + 1]
    /\ UNCHANGED <<fn, numLocalSlaves, numLocalEntries, mismatch, calls, layoutVars, notC>>

\* Line 124 on root: coo_matrix raises ValueError when no rank built an entry.
C_BuildK(p) ==
    /\ stC[p] = "run"
    /\ pcC[p] <= Len(Program(p))
    /\ Program(p)[pcC[p]].op = "coo_matrix"
    /\ IF \A q \in Ranks : numLocalEntries[q] = 0
       THEN stC' = [stC EXCEPT ![p] = "raised"] /\ pcC' = pcC
       ELSE pcC' = [pcC EXCEPT ![p] = @ + 1] /\ stC' = stC
    /\ UNCHANGED <<fn, numLocalSlaves, numLocalEntries, mismatch, calls, layoutVars, notC>>

\* Lines 196-205 and 220-226 on root: the comparison and its assertions.
C_Compare(p) ==
    /\ stC[p] = "run"
    /\ pcC[p] <= Len(Program(p))
    /\ Program(p)[pcC[p]].op = "compare"
    /\ IF mismatch
       THEN stC' = [stC EXCEPT ![p] = "failed"] /\ pcC' = pcC
       ELSE pcC' = [pcC EXCEPT ![p] = @ + 1] /\ stC' = stC
    /\ UNCHANGED <<fn, numLocalSlaves, numLocalEntries, mismatch, calls, layoutVars, notC>>

\* The rank returns from the utility.
C_Return(p) ==
    /\ stC[p] = "run"
    /\ pcC[p] > Len(Program(p))
    /\ stC' = [stC EXCEPT ![p] = "returned"]
    /\ UNCHANGED <<fn, numLocalSlaves, numLocalEntries, mismatch, pcC, calls, layoutVars, notC>>

NextC ==
    \E p \in Ranks : C_Enter(p) \/ C_Leave(p) \/ C_BuildK(p) \/ C_Compare(p) \/ C_Return(p)

\* ------------------------------------------------ LinearProblem.__init__
OptionKeys == {"ksp_type", "pc_type"}
NoOptions == [kind |-> "None"]
Dict(d) == [kind |-> "dict", items |-> d]
\* The petsc_options arguments tried.
OptionDicts ==
    {NoOptions, Dict([k \in {"ksp_type"} |-> "cg"]), Dict([k \in {"ksp_type"} |-> "gmres"]),
     Dict([k \in {"pc_type"} |-> "lu"])}
\* The u arguments tried: None, a function of mpc.function_space, a function of
\* another function space.
UArgs == {"None", "mpc_space", "other_space"}

\* id(self): an address no live object has; the address of a destroyed
\* instance may be given again.
Addresses == 1 .. MaxAddresses
FreeAddresses == Addresses \ {i.id : i \in live}

\* A variant that checks the arguments only after everything is created.
CtorStmtsChecksLast ==
    <<"compile_forms", "create_matrix", "create_vector", "create_solver",
      "check_finalized", "set_u", "push_options", "set_from_options">>

\* Lines 73-116: the statements of the constructor, in order.
CtorStmts ==
    <<"compile_forms", "check_finalized", "set_u", "create_matrix", "create_vector",
      "create_solver", "push_options", "set_from_options">>

\* The value an option has for a solver with the given prefix.
OptionValue(store, prefix, k) ==
    IF <<prefix, k>> \in DOMAIN store THEN store[<<prefix, k>>] ELSE "default"

\* One statement of the constructor on the state st, called with the
\* arguments in.
ExecCtorStmt(stmt, st, in) ==
    CASE stmt = "compile_forms" ->        \* lines 74-77
            [st EXCEPT !.alloc.forms = @ + 2]
      [] stmt = "check_finalized" ->      \* lines 79-81
            IF ~in.finalized THEN [st EXCEPT !.outcome = "RuntimeError"] ELSE st
      [] stmt = "set_u" ->                \* lines 83-91
            IF in.u = "None" THEN [st EXCEPT !.alloc.functions = @ + 1]
            ELSE IF in.u = "mpc_space" THEN st
            ELSE [st EXCEPT !.outcome = "ValueError"]
      [] stmt = "create_matrix" ->        \* lines 94-96
            [st EXCEPT !.alloc.matrices = @ + 1]
      [] stmt = "create_vector" ->        \* lines 98-100
            [st EXCEPT !.alloc.vectors = @ + 1]
      [] stmt = "create_solver" ->        \* lines 102-107
            [st EXCEPT !.alloc.solvers = @ + 1]
      [] stmt = "push_options" ->         \* lines 110-115
            IF in.petsc_options.kind = "None" THEN st
            ELSE LET d == in.petsc_options.items
                     new == {<<in.id, k>> : k \in DOMAIN d}
                 IN [st EXCEPT !.store =
                        [key \in DOMAIN st.store \cup new |->
                            IF key \in new THEN d[key[2]] ELSE st.store[key]]]
      [] stmt = "set_from_options" ->     \* line 116
            [st EXCEPT !.config = [k \in OptionKeys |-> OptionValue(st.store, in.id, k)],
                       !.outcome = "ok"]

\* The constructor: its statements one after the other until one raises.
RECURSIVE RunCtor(_, _, _, _)
RunCtor(stmts, i, st, in) ==
    IF i > Len(stmts) \/ st.outcome # "running" THEN st
    ELSE RunCtor(stmts, i + 1, ExecCtorStmt(stmts[i], st, in), in)

NoConfig == [k \in OptionKeys |-> "unset"]

InitI ==
    /\ optStore = <<>>
    /\ live = {}
    /\ alloc = [forms |-> 0, functions |-> 0, matrices |-> 0, vectors |-> 0, solvers |-> 0]
    /\ seen = {}
    /\ nCtorCalls = 0

\* LinearProblem(a, L, mpc, bcs, u, petsc_options), lines 67-116.
Construct(finalized, u, petsc_options, id) ==
    /\ nCtorCalls < MaxCtorCalls
    /\ id \in FreeAddresses
    /\ LET in == [finalized |-> finalized, u |-> u, petsc_options |-> petsc_options, id |-> id]
           st == RunCtor(CtorStmts, 1,
                         [alloc |-> alloc, store |-> optStore, config |-> NoConfig,
                          outcome |-> "running"], in)
       IN /\ alloc' = st.alloc
          /\ optStore' = st.store
          /\ seen' = seen \cup {[outcome |-> st.outcome, finalized |-> finalized, u |-> u]}
          /\ live' = IF st.outcome = "ok"
                     THEN live \cup {[id |-> id, petsc_options |-> petsc_options,
                                      config |-> st.config]}
                     ELSE live
    /\ nCtorCalls' = nCtorCalls + 1
    /\ UNCHANGED notI

\* An instance is garbage-collected: its matrix, vector and solver go; nothing
\* removes the options it pushed.
Destroy(inst) ==
    /\ inst \in live
    /\ live' = live \ {inst}
    /\ UNCHANGED <<optStore, alloc, seen, nCtorCalls, notI>>

NextI ==
    \/ \E finalized \in BOOLEAN, u \in UArgs, o \in OptionDicts, id \in Addresses :
            Construct(finalized, u, o, id)
    \/ \E inst \in live : Destroy(inst)

\* --------------------------------------------------- LinearProblem.solve
\* Every rank runs the same statements; the statements between two collective
\* calls touch rank-local data only, so the ranks are advanced together, one
\* statement at a time.  With this layout every dof is local to every rank
\* (owned or ghost), so a rank's arrays are indexed by global dof.

\* The data of the forms and of the boundary conditions: the coefficient f of
\* L, the coefficient k of a, the value g of the Dirichlet conditions.
Inputs == {[f |-> 2, k |-> 1, g |-> 3], [f |-> 4, k |-> 2, g |-> 5]}

OwnerOfDof(g) == CHOOSE p \in Ranks : g \in OwnedDofs(p)
IsOwned(p, g) == g \in OwnedDofs(p)
\* The weight with which dof g collects contributions: its own, and those of
\* the slaves it is a master of.
MasterWeight(g) ==
    1 + SumSeq([i \in 1 .. NumDofs |->
                  IF (i - 1) \in SlavesG /\ g \in MastersOf(i - 1) THEN coeffG[i - 1][g] ELSE 0])

\* Line 125, self._A.zeroEntries().
ZeroEntries(mat) ==
    [p \in Ranks |-> [val |-> [g \in Dofs |-> 0], assembled |-> mat[p].assembled]]

\* Line 126, assemble_matrix(self._a, self._mpc, bcs=self.bcs, A=self._A): every
\* rank adds its contributions to the rows of its local dofs; the row of a
\* slave and the row of a pinned dof get a 1 on the diagonal from the owner.
AssembleMatrix(mat) ==
    [p \in Ranks |->
        [val |-> [g \in Dofs |->
            mat[p].val[g] +
            (IF g \in SlavesG \/ g \in bcDofs
             THEN (IF IsOwned(p, g) THEN 1 ELSE 0)
             ELSE inp.k * MasterWeight(g))],
         assembled |-> FALSE]]

\* Line 127, self._A.assemble(): the values set in rows of other ranks go to
\* their owners; the matrix is assembled.
MatAssemble(mat) ==
    [p \in Ranks |->
        [val |-> [g \in Dofs |->
            IF IsOwned(p, g)
            THEN SumSeq([q \in 1 .. NProcs |-> mat[q - 1].val[g]])
            ELSE 0],
         assembled |-> TRUE]]

\* A variant that zeroes the owned entries only (b.set(0) on the global vector).
ZeroOwnedOnly(vec) ==
    [p \in Ranks |-> [g \in Dofs |-> IF IsOwned(p, g) THEN 0 ELSE vec[p][g]]]

\* Lines 131-132, with self._b.localForm() as b_loc: b_loc.set(0): owned and
\* ghost entries.
ZeroLocalForm(vec) == [p \in Ranks |-> [g \in Dofs |-> 0]]

\* Line 133, assemble_vector(self._L, self._mpc, b=self._b): every rank adds its
\* contributions to its local entries, ghosts included; nothing goes to a
\* slave's entry.
AssembleVector(vec) ==
    [p \in Ranks |-> [g \in Dofs |->
        vec[p][g] + (IF g \in SlavesG THEN 0 ELSE inp.f * MasterWeight(g))]]

\* Line 136, apply_lifting(self._b, [self._a], [self.bcs], self._mpc): every rank
\* subtracts the pinned values through the form a from its local entries.
ApplyLifting(vec) ==
    [p \in Ranks |-> [g \in Dofs |->
        vec[p][g] - (IF g \in SlavesG \/ g \in bcDofs THEN 0
                     ELSE inp.k * inp.g * Cardinality(bcDofs))]]

\* Line 137, ghostUpdate(addv=ADD, mode=REVERSE): the ghost entries are added
\* to the owner's entry; the ghost entries stay.
GhostUpdateAddReverse(vec) ==
    [p \in Ranks |-> [g \in Dofs |->
        IF IsOwned(p, g)
        THEN SumSeq([q \in 1 .. NProcs |-> vec[q - 1][g]])
        ELSE vec[p][g]]]

\* Line 138, set_bc(self._b, self.bcs): the owned pinned entries get the value.
SetBc(vec) ==
    [p \in Ranks |-> [g \in Dofs |->
        IF IsOwned(p, g) /\ g \in bcDofs THEN inp.g ELSE vec[p][g]]]

\* The solution entry of one row: a fixed function of the row and of the
\* right-hand side.
SolveRow(a, rhs) == IF a = 0 THEN rhs ELSE rhs \div a

\* Line 141, self._solver.solve(self._b, self._x): the owned entries of x are
\* written; the ghost entries are left as they were.
KspSolve(mat, vec, sol) ==
    [p \in Ranks |-> [g \in Dofs |->
        IF IsOwned(p, g) THEN SolveRow(mat[p].val[g], vec[p][g]) ELSE sol[p][g]]]

\* A variant that leaves the ghost entries stale.
ScatterForwardSkipped(sol) == sol

\* Line 142, self.u.x.scatter_forward(): the ghost entries get the owner's value.
ScatterForward(sol) ==
    [p \in Ranks |-> [g \in Dofs |-> sol[OwnerOfDof(g)][g]]]

\* Line 143, self._mpc.backsubstitution(self.u): on every rank every slave entry,
\* owned or ghost, becomes the weighted sum of the rank's master entries.
BackSubstitution(sol) ==
    [p \in Ranks |-> [g \in Dofs |->
        IF g \in SlavesG
        THEN SumSeq([i \in 1 .. NumDofs |->
                IF (i - 1) \in MastersOf(g) THEN coeffG[g][i - 1] * sol[p][i - 1] ELSE 0])
        ELSE sol[p][g]]]

\* A variant that writes the Dirichlet values before the reverse scatter.
SolveStmtsBcFirst ==
    <<"zeroEntries", "assemble_matrix", "assemble", "assert_assembled",
      "zero_local_form", "assemble_vector", "apply_lifting", "set_bc",
      "ghostUpdate_add_reverse", "ksp_solve", "scatter_forward", "backsubstitution">>

\* Lines 124-143: the statements of solve(), in order.
SolveStmts ==
    <<"zeroEntries", "assemble_matrix", "assemble", "assert_assembled",
      "zero_local_form", "assemble_vector", "apply_lifting", "ghostUpdate_add_reverse",
      "set_bc", "ksp_solve", "scatter_forward", "backsubstitution">>

\* One statement of solve() on the state st = [A, b, x, log].
ExecSolveStmt(stmt, st) ==
    CASE stmt = "zeroEntries" -> [st EXCEPT !.A = ZeroEntries(@)]
      [] stmt = "assemble_matrix" -> [st EXCEPT !.A = AssembleMatrix(@)]
      [] stmt = "assemble" -> [st EXCEPT !.A = MatAssemble(@)]
      [] stmt = "assert_assembled" -> st        \* line 128
      [] stmt = "zero_local_form" -> [st EXCEPT !.b = ZeroLocalForm(@)]
      [] stmt = "assemble_vector" -> [st EXCEPT !.b = AssembleVector(@)]
      [] stmt = "apply_lifting" -> [st EXCEPT !.b = ApplyLifting(@)]
      [] stmt = "ghostUpdate_add_reverse" -> [st EXCEPT !.b = GhostUpdateAddReverse(@)]
      [] stmt = "set_bc" -> [st EXCEPT !.b = SetBc(@)]
      [] stmt = "ksp_solve" -> [st EXCEPT !.x = KspSolve(st.A, st.b, @)]
      [] stmt = "scatter_forward" -> [st EXCEPT !.x = ScatterForward(@)]
      [] stmt = "backsubstitution" -> [st EXCEPT !.x = BackSubstitution(@)]

\* What a statement adds to the record of operations: the assertion of line
\* 128 is no operation; the solve is recorded with the state of the matrix.
LogEntry(stmt, st) ==
    IF stmt = "assert_assembled" THEN <<>>
    ELSE IF stmt = "ksp_solve"
         THEN <<[op |-> stmt, assembled |-> \A p \in Ranks : st.A[p].assembled]>>
         ELSE <<[op |-> stmt]>>

\* The layouts solve() is run on: every rank owns a dof, the block size is 1.
InitSolveLayout ==
    /\ bs = 1
    /\ nblocks \in NProcs .. MaxDofs
    /\ ranges \in {r \in Partitions(nblocks) : \A p \in Ranks : r[p][1] < r[p][2]}
    /\ coeffG \in Constraints(nblocks)
    /\ root = 0

NoResult == [valid |-> FALSE]

\* The lowest dof that is no slave, if there is one: the dof the boundary
\* conditions pin.
LowestFreeDof == IF Dofs \ SlavesG = {} THEN {} ELSE {Min(Dofs \ SlavesG)}

\* The state the constructor leaves (lines 67-116), called with a finalized mpc
\* and with u either None (a new, zero function) or a function of the caller,
\* whose entries hold anything (here 9).
InitS ==
    /\ inp = CHOOSE i \in Inputs : i.f = 2
    /\ bcDofs \in {{}} \cup {{d} : d \in LowestFreeDof}
    /\ \E u \in {"None", "mpc_space"} :
        LET st == RunCtor(CtorStmts, 1,
                          [alloc |-> [forms |-> 0, functions |-> 0, matrices |-> 0,
                                      vectors |-> 0, solvers |-> 0],
                           store |-> <<>>, config |-> NoConfig, outcome |-> "running"],
                          [finalized |-> TRUE, u |-> u, petsc_options |-> NoOptions, id |-> 1])
        IN /\ alloc = st.alloc
           /\ optStore = st.store
           /\ live = {[id |-> 1, petsc_options |-> NoOptions, config |-> st.config]}
           /\ seen = {[outcome |-> st.outcome, finalized |-> TRUE, u |-> u]}
           /\ self_x = [p \in Ranks |-> [g \in Dofs |-> IF u = "None" THEN 0 ELSE 9]]
    /\ nCtorCalls = 1
    /\ pcS = 0
    /\ slog = <<>>
    /\ self_A = [p \in Ranks |-> [val |-> [g \in Dofs |-> 0], assembled |-> FALSE]]
    /\ self_b = [p \in Ranks |-> [g \in Dofs |-> 0]]
    /\ nSolves = 0
    /\ last = NoResult
    /\ prev = NoResult

IdleS ==
    /\ inp = CHOOSE i \in Inputs : i.f = 2
    /\ bcDofs = {}
    /\ pcS = 0
    /\ slog = <<>>
    /\ self_A = <<>>
    /\ self_b = <<>>
    /\ self_x = <<>>
    /\ nSolves = 0
    /\ last = NoResult
    /\ prev = NoResult

\* problem.solve() is called (line 118).
S_Call ==
    /\ pcS = 0
    /\ nSolves < MaxSolves
    /\ nSolves' = nSolves + 1
    /\ prev' = last
    /\ pcS' = 1
    /\ slog' = <<>>
    /\ UNCHANGED <<inp, bcDofs, self_A, self_b, self_x, last, notS>>

\* The next statement of solve() (lines 124-145); after the last one the call
\* returns self.u.
S_Step ==
    /\ pcS >= 1
    /\ LET stmt == SolveStmts[pcS]
           st == ExecSolveStmt(stmt, [A |-> self_A, b |-> self_b, x |-> self_x])
       IN /\ self_A' = st.A
          /\ self_b' = st.b
          /\ self_x' = st.x
          /\ slog' = slog \o LogEntry(stmt, [A |-> self_A])
          /\ last' = IF pcS = Len(SolveStmts)
                     THEN [valid |-> TRUE, inp |-> inp, A |-> st.A, b |-> st.b, x |-> st.x,
                           alloc |-> alloc]
                     ELSE last
    /\ pcS' = IF pcS = Len(SolveStmts) THEN 0 ELSE pcS + 1
    /\ UNCHANGED <<inp, bcDofs, nSolves, prev, notS>>

\* Between two calls the caller changes the forms' coefficients and the values
\* of the boundary conditions.
S_ChangeInputs ==
    /\ pcS = 0
    /\ nSolves < MaxSolves
    /\ inp' \in Inputs \ {inp}
    /\ UNCHANGED <<bcDofs, pcS, slog, self_A, self_b, self_x, nSolves, last, prev, notS>>

NextS == S_Call \/ S_Step \/ S_ChangeInputs

\* ------------------------------------------------- properties of K
\* The number of global slaves with an index below x.
SlavesBelow(x) == Cardinality({s \in SlavesG : s < x})

\* The (position, value) pairs K holds in row r.
RowOf(r) == {<<rc, K.entries[rc]>> : rc \in {e \in DOMAIN K.entries : e[1] = r}}

ExpectedRow(r) ==
    IF r \in SlavesG
    THEN {<<<<r, m - SlavesBelow(m)>>, coeffG[r][m]>> : m \in MastersOf(r)}
    ELSE {<<<<r, r - SlavesBelow(r)>>, 1>>}

\* K as a list of dense rows.
DenseRows ==
    [r \in 1 .. K.nrows |-> [c \in 1 .. K.ncols |->
        IF <<r - 1, c - 1>> \in DOMAIN K.entries THEN K.entries[<<r - 1, c - 1>>] ELSE 0]]

\* C6: the K root gets holds, in the row of every non-slave dof r, exactly the
\* value 1 at column r minus the number of slaves below r, and in the row of
\* every slave exactly its coefficients, each at its master's index minus the
\* number of slaves below the master; no other row holds anything; with no
\* slaves K is the N x N identity.
C6_RowsOfK ==
    K.status = "ok" =>
        /\ \A r \in Dofs : RowOf(r) = ExpectedRow(r)
        /\ \A e \in DOMAIN K.entries : e[1] \in Dofs
        /\ SlavesG = {} => (K.nrows = NumDofs /\ K.ncols = NumDofs)

\* A K built for a slave with two masters, one of them owned by another rank
\* than the slave and above a slave.
C6_Witness ==
    /\ K.status = "ok"
    /\ \E s \in SlavesG : \E m \in MastersOf(s) :
        /\ Cardinality(MastersOf(s)) >= 2
        /\ SlavesBelow(m) >= 1
        /\ \E p \in Ranks : s \in OwnedDofs(p) /\ m \notin OwnedDofs(p)

\* C7: the K root gets has N rows and N - S columns.
C7_ShapeOfK ==
    K.status = "ok" => (K.nrows = NumDofs /\ K.ncols = NumDofs - Cardinality(SlavesG))

\* The constraint slave 0 = 2 * master 1 on three dofs, with K built.
C8_Input ==
    /\ nblocks = 3
    /\ bs = 1
    /\ coeffG = (0 :> (1 :> 2 @@ 2 :> 0))
    /\ K.status # "none"

\* C8, as stated: for slave 0 = 2 * master 1 on three dofs K has the rows
\* [[2,0],[0,1],[1,0]].
C8_AsStated ==
    C8_Input => (K.status = "ok" /\ DenseRows = <<<<2, 0>>, <<0, 1>>, <<1, 0>>>>)

\* C8, amended: for slave 0 = 2 * master 1 on three dofs K has the rows
\* [[2,0],[1,0],[0,1]]: the identity entries of dofs 1 and 2 sit at columns 0
\* and 1.
C8_Amended ==
    C8_Input => (K.status = "ok" /\ DenseRows = <<<<2, 0>>, <<1, 0>>, <<0, 1>>>>)

\* The literal constraint of C8 spread over more than one owning rank.
C8_Witness == C8_Input /\ K.status = "ok" /\ \E p \in Ranks : NumOwnedBlocks(p) \in 1 .. 2

\* --------------------------------------- properties of gather_PETScVector
\* The rank that owns global index i.
OwnerOf(i) == CHOOSE p \in Ranks : ranges[p][1] <= i /\ i < ranges[p][2]

C10_NoRankLeftBlocked ==
    \A p \in Ranks :
        (Ended(root) /\ stC[p] = "wait") => Len(calls[root]) >= Len(calls[p])

\* ------------------------------------- properties of the constructor
Allocated == <<alloc.matrices, alloc.vectors, alloc.solvers>>

\* C3: a constructor call with an unfinalized mpc raises RuntimeError, one with
\* a finalized mpc and a u of another function space raises ValueError, and a
\* call that raises creates no matrix, no vector and no solver and writes no
\* option.
C3_ErrorsBeforeAllocation ==
    [][nCtorCalls' = nCtorCalls + 1 =>
        /\ \A c \in seen' \ seen :
            /\ ~c.finalized => c.outcome = "RuntimeError"
            /\ (c.finalized /\ c.u = "other_space") => c.outcome = "ValueError"
        /\ (live' = live) => (Allocated' = Allocated /\ optStore' = optStore)]_vars

\* Both errors were raised, each after an instance was constructed with
\* options, and nothing but that instance's allocations exists.
C3_Witness ==
    /\ \E c \in seen : c.outcome = "RuntimeError"
    /\ \E c \in seen : c.outcome = "ValueError"
    /\ \E c \in seen : c.outcome = "ok"
    /\ nCtorCalls = 3
    /\ Allocated = <<1, 1, 1>>
    /\ optStore # <<>>

\* The configuration the options passed to an instance ask for.
OwnConfig(inst) ==
    [k \in OptionKeys |->
        IF inst.petsc_options.kind = "dict" /\ k \in DOMAIN inst.petsc_options.items
        THEN inst.petsc_options.items[k] ELSE "default"]

\* C4: the configuration of every instance is the one its own petsc_options
\* ask for: nothing pushed for another instance is read.
C4_OwnOptionsOnly == \A inst \in live : inst.config = OwnConfig(inst)

\* --------------------------------------------------------- specifications
\* ------------------------------------------------ properties of solve()
\* The order of operations as the specification lists it.
ClaimedOrder ==
    <<"zeroEntries", "assemble_matrix", "assemble", "zero_local_form",
      "assemble_vector", "apply_lifting", "ghostUpdate_add_reverse", "set_bc",
      "ksp_solve", "scatter_forward", "backsubstitution">>

Returned == pcS = 0 /\ nSolves > 0

PositionsOf(op) == {i \in 1 .. Len(slog) : slog[i].op = op}

\* C1: every call of solve() performs the eleven operations in the listed
\* order, each exactly once: at any moment the operations performed so far are
\* a prefix of the list, and a returned call has performed them all.  The
\* solver is invoked on an assembled matrix only, set_bc comes after the
\* reverse scatter, back-substitution after the forward scatter.
C1_FixedOrder ==
    /\ Len(slog) <= Len(ClaimedOrder)
    /\ \A i \in 1 .. Len(slog) : slog[i].op = ClaimedOrder[i]
    /\ Returned => Len(slog) = Len(ClaimedOrder)
    /\ \A i \in PositionsOf("ksp_solve") : slog[i].assembled
    /\ \A i \in PositionsOf("set_bc") :
          \E j \in PositionsOf("ghostUpdate_add_reverse") : j < i
    /\ \A i \in PositionsOf("backsubstitution") :
          \E j \in PositionsOf("scatter_forward") : j < i

\* A second call has returned, on a problem with a pinned dof.
C1_Witness ==
    /\ Returned
    /\ nSolves >= 2
    /\ bcDofs # {}
    /\ Len(slog) = Len(ClaimedOrder)

\* C2: after solve() has returned, on every rank every slave entry of the
\* solution equals the sum of coefficient times the master's value, the
\* master's value being the one its owner holds after the solve.
C2_SlavesFromMasters ==
    Returned =>
        \A p \in Ranks : \A s \in SlavesG :
            self_x[p][s] =
                SumSeq([i \in 1 .. NumDofs |->
                    IF (i - 1) \in MastersOf(s)
                    THEN coeffG[s][i - 1] * self_x[OwnerOfDof(i - 1)][i - 1]
                    ELSE 0])

\* A returned solve in which a rank owns a slave whose master it holds as a
\* ghost copy, with a value that is not zero.
C2_Witness ==
    /\ Returned
    /\ \E s \in SlavesG : \E m \in MastersOf(s) :
          /\ OwnerOfDof(m) # OwnerOfDof(s)
          /\ self_x[OwnerOfDof(m)][m] # 0
          /\ self_x[OwnerOfDof(s)][s] # 0

\* C5: two calls in succession with the same inputs leave the same matrix,
\* the same vector (owned and ghost entries) and the same solution, and the
\* matrix, the vector and the solver are the ones the constructor created.
C5_SolveTwice ==
    /\ Allocated = <<1, 1, 1>>
    /\ (pcS = 0 /\ prev.valid /\ last.valid /\ prev.inp = last.inp) =>
          /\ last.A = prev.A
          /\ last.b = prev.b
          /\ last.x = prev.x
          /\ last.alloc = prev.alloc

\* Two calls with the same inputs have returned; some rank holds a ghost entry
\* of the vector that is not zero, and a dof is pinned.
C5_Witness ==
    /\ pcS = 0
    /\ prev.valid
    /\ last.valid
    /\ prev.inp = last.inp
    /\ bcDofs # {}
    /\ \E p \in Ranks : \E g \in Dofs : ~IsOwned(p, g) /\ last.b[p][g] # 0

InitSpecK == InitLayout /\ InitK /\ IdleV /\ IdleC /\ InitI /\ IdleS
SpecK == InitSpecK /\ [][NextK]_vars

InitSpecV == InitV /\ IdleK /\ IdleC /\ InitI /\ IdleS
SpecV == InitSpecV /\ [][NextV]_vars

InitSpecC == IdleLayout /\ InitC /\ IdleK /\ IdleV /\ InitI /\ IdleS
SpecC == InitSpecC /\ [][NextC]_vars

InitSpecI == IdleLayout /\ root = 0 /\ IdleK /\ IdleV /\ IdleC /\ InitI /\ IdleS
SpecI == InitSpecI /\ [][NextI]_vars

InitSpecS == InitSolveLayout /\ IdleK /\ IdleV /\ IdleC /\ InitS
SpecS == InitSpecS /\ [][NextS]_vars

====
